---- MODULE Spec2Model ----
(***************************************************************************)
(* Model of YT_video_finder_with_analysis/main.py: the ISO-8601 duration   *)
(* parser, the relevance scorer, the two YouTube clients, the duration     *)
(* filter and the orchestrator process_query.                              *)
(*                                                                         *)
(* Conventions.                                                            *)
(*  - A Python string is a sequence of one-character strings.              *)
(*  - A JSON value that may or may not be a string is a record             *)
(*    [type, chars] (type "str" or "null").                                *)
(*  - A duration in minutes is kept exactly, in units of 1/60 minute       *)
(*    (Unit), so hours*60 + minutes + seconds/60.0 is                      *)
(*    hours*3600 + minutes*60 + seconds of these units.                    *)
(*  - A Python float is a record [nan, v]: json.loads accepts the literal  *)
(*    NaN, and every ordered comparison with NaN is False.                 *)
(*  - A Python dict is a sequence of entries in insertion order, with      *)
(*    distinct keys.                                                       *)
(***************************************************************************)
EXTENDS Integers, Sequences, FiniteSets, TLC

VARIABLES
    pc,              \* position of the running entry point
    videos,          \* process_query: ids returned by the search (video_ids)
    details,         \* process_query: dict id -> detail record
    filtered_videos, \* process_query: dict id -> detail record after the filter
    video_scores,    \* process_query: dict id -> score, with how it was obtained
    result,          \* what the entry point returned or raised
    calls,           \* history: number of search / detail / scorer calls made
    call_args,       \* the arguments the entry point was called with
    sent             \* direct client call: requests put on the wire, in order

vars == <<pc, videos, details, filtered_videos, video_scores,
          result, calls, call_args, sent>>

-----------------------------------------------------------------------------
(* Bounds of the model *)

\* longest search result list (the code asks the platform for at most 20)
MaxItems == 2
\* longest token given to the duration parser when it is checked on its own
MaxLen == 5

Ids == {"a", "b", "c"}
Categories == {"short", "medium", "long", "any"}

-----------------------------------------------------------------------------
(* Duration parser: convert_iso_duration_to_minutes *)

\* 1/60 minute: the divisor of `seconds / 60.0`
Unit == 60

Digits == {"0", "1", "2", "3", "4", "5", "6", "7", "8", "9"}

DigitVal(c) ==
    CASE c = "0" -> 0 [] c = "1" -> 1 [] c = "2" -> 2 [] c = "3" -> 3
      [] c = "4" -> 4 [] c = "5" -> 5 [] c = "6" -> 6 [] c = "7" -> 7
      [] c = "8" -> 8 [] c = "9" -> 9

\* int(s) for a string of digits; `int(None or 0)` is the empty case
RECURSIVE int(_)
int(s) ==
    IF s = <<>> THEN 0
    ELSE 10 * int(SubSeq(s, 1, Len(s) - 1)) + DigitVal(s[Len(s)])

\* \d+ is greedy: the length of the run of digits of s that starts at i
RECURSIVE DigitRun(_, _)
DigitRun(s, i) ==
    IF i <= Len(s) /\ s[i] \in Digits THEN 1 + DigitRun(s, i + 1) ELSE 0

\* (?:(\d+)<unit>)? tried at position i: the group and where matching goes on.
\* A shorter run of digits is followed by a digit, never by the unit letter,
\* so backtracking into \d+ cannot make the group match.
OptGroup(s, i, unit) ==
    LET n == DigitRun(s, i)
    IN  IF n > 0 /\ i + n <= Len(s) /\ s[i + n] = unit
        THEN [digits |-> SubSeq(s, i, i + n - 1), next |-> i + n + 1]
        ELSE [digits |-> <<>>, next |-> i]

\* pattern.match(s): anchored at the start of s only (re.match, not fullmatch)
pattern_match(s) ==
    IF Len(s) >= 2 /\ s[1] = "P" /\ s[2] = "T"
    THEN LET h == OptGroup(s, 3, "H")
             m == OptGroup(s, h.next, "M")
             sec == OptGroup(s, m.next, "S")
         IN  [matched |-> TRUE, hours |-> h.digits, minutes |-> m.digits,
              seconds |-> sec.digits]
    ELSE [matched |-> FALSE, hours |-> <<>>, minutes |-> <<>>, seconds |-> <<>>]

\* [raised, value]: raised is the TypeError of pattern.match on a non-string;
\* value is total_minutes in units of 1/60 minute
convert_iso_duration_to_minutes(duration) ==
    IF duration.type # "str"
    THEN [raised |-> TRUE, value |-> 0]
    ELSE LET match == pattern_match(duration.chars)
         IN  IF ~match.matched
             THEN [raised |-> FALSE, value |-> 0]
             ELSE [raised |-> FALSE,
                   value |-> int(match.hours) * 60 * Unit
                             + int(match.minutes) * Unit
                             + int(match.seconds)]

Str(chars) == [type |-> "str", chars |-> chars]
Null == [type |-> "null", chars |-> <<>>]

-----------------------------------------------------------------------------
(* Relevance scorer: call_llm_to_score_title *)

Float(x) == [nan |-> FALSE, v |-> x]
NaN == [nan |-> TRUE, v |-> 0]

\* Python's > on floats
FloatGT(x, y) == ~x.nan /\ ~y.nan /\ x.v > y.v
\* Python's >= on floats
FloatGE(x, y) == ~x.nan /\ ~y.nan /\ x.v >= y.v

\* What gemini_llm.invoke and the text it returns can be:
\*   call_failure  invoke raises
\*   no_json       the text holds no {...}
\*   bad_json      json.loads raises on the {...} substring
\*   no_score_key  the object has no "score" key
\*   non_numeric   float() raises on the value of "score"
\*   number        the object carries a number (json.loads accepts NaN)
ScoreValues == {Float(0 - 5), Float(0), Float(50), Float(150), NaN}

LLMResponses ==
    {[kind |-> k, score |-> Float(0)] :
        k \in {"call_failure", "no_json", "bad_json", "no_score_key", "non_numeric"}}
    \cup {[kind |-> "number", score |-> s] : s \in ScoreValues}

\* The scorer with an except clause that names ValueError only: a failure of
\* the model call itself leaves the function as an exception.
call_llm_to_score_title_ValueErrorOnly(response) ==
    CASE response.kind = "call_failure" -> [raised |-> TRUE, score |-> Float(0)]
      [] response.kind \in {"no_json", "bad_json", "non_numeric"}
            -> [raised |-> FALSE, score |-> Float(0)]
      [] response.kind = "no_score_key" -> [raised |-> FALSE, score |-> Float(0)]
      [] response.kind = "number" -> [raised |-> FALSE, score |-> response.score]

\* [raised, score]: `except Exception` catches every failure of the try block
\* and returns 0, result.get("score", 0) gives 0 for a missing key, and a
\* number is returned as float() of it, unchecked
call_llm_to_score_title(response) ==
    CASE response.kind \in {"call_failure", "no_json", "bad_json", "non_numeric"}
            -> [raised |-> FALSE, score |-> Float(0)]
      [] response.kind = "no_score_key" -> [raised |-> FALSE, score |-> Float(0)]
      [] response.kind = "number" -> [raised |-> FALSE, score |-> response.score]

\* a failure while scoring, as opposed to a score received from the model
ScoringFailed(response) == response.kind # "number"

-----------------------------------------------------------------------------
(* Search client: get_videos_from_youtube *)

\* max_results and the look-back of the signature, and what process_query asks
DefaultMaxResults == 25
DefaultLookbackDays == 14
OrchestratorMaxResults == 20

\* the clock, in days; a timestamp is the day count with the "Z" suffix that
\* isoformat().replace("+00:00", "Z") gives it
Clocks == {100, 101}
Days == {1, 14}
Timestamp(t) == [none |-> FALSE, t |-> t, suffix |-> "Z"]
None == [none |-> TRUE, t |-> 0, suffix |-> ""]

\* sequences of distinct ids, at most n long
Distinct(l) == \A j, k \in 1..Len(l) : j # k => l[j] # l[k]
IdLists(n) == {l \in UNION {[1..k -> Ids] : k \in 0..n} : Distinct(l)}

\* What the platform answers to a search: a non-200 status, a 200 whose items
\* lack a key the client reads, or a 200 with a list of items (here their ids)
SearchResponses ==
    {[kind |-> "http_error", items |-> <<>>], [kind |-> "malformed", items |-> <<>>]}
    \cup {[kind |-> "ok", items |-> l] : l \in IdLists(MaxItems)}

\* The search client with the default cutoff computed on every call, the
\* published_after argument ignored.
get_videos_from_youtube_always_default(query, max_results, published_after, duration, now, response) ==
    [request |-> [q |-> query, maxResults |-> max_results,
                  publishedAfter |-> Timestamp(now - DefaultLookbackDays),
                  videoDuration |-> duration],
     raised |-> response.kind # "ok",
     videos |-> IF response.kind = "ok" THEN response.items ELSE <<>>]

\* [request, raised, videos]: the request sent, whether the call raised
\* (status_code != 200, or a KeyError on a malformed item), the ids returned
get_videos_from_youtube(query, max_results, published_after, duration, now, response) ==
    LET cutoff == IF published_after.none
                  THEN Timestamp(now - DefaultLookbackDays)
                  ELSE published_after
    IN  [request |-> [q |-> query, maxResults |-> max_results,
                      publishedAfter |-> cutoff, videoDuration |-> duration],
         raised |-> response.kind # "ok",
         videos |-> IF response.kind = "ok" THEN response.items ELSE <<>>]

-----------------------------------------------------------------------------
(* Detail client: get_video_details *)

\* the duration values the platform's detail items carry in this model:
\* 3 min 59 s, 4 min, 20 min, 1 h, and a value that is no string
PT3M59S == Str(<<"P", "T", "3", "M", "5", "9", "S">>)
PT4M == Str(<<"P", "T", "4", "M">>)
PT20M == Str(<<"P", "T", "2", "0", "M">>)
PT1H == Str(<<"P", "T", "1", "H">>)
DurationValues == {PT3M59S, PT4M, PT20M, PT1H, Null}

\* d[k] = v on a dict: the value is replaced in place, a new key goes last
DictPut(d, k, v) ==
    IF \E i \in 1..Len(d) : d[i].id = k
    THEN [i \in 1..Len(d) |-> IF d[i].id = k THEN [id |-> k, rec |-> v] ELSE d[i]]
    ELSE Append(d, [id |-> k, rec |-> v])

DictKeys(d) == {d[i].id : i \in 1..Len(d)}
DictGet(d, k) == (CHOOSE e \in {d[i] : i \in 1..Len(d)} : e.id = k).rec

\* detail items for a sub-list of the ids asked, in the order asked (the
\* platform omits deleted or private videos), each with some duration value;
\* the title of video i is written i
RECURSIVE DetailItems(_)
DetailItems(ids) ==
    IF ids = <<>> THEN {<<>>}
    ELSE LET rest == DetailItems(Tail(ids))
         IN  rest \cup
             {<<[id |-> Head(ids), title |-> Head(ids), duration |-> d]>> \o r :
                 d \in DurationValues, r \in rest}

DetailResponses(items) ==
    {[kind |-> "http_error", items |-> <<>>], [kind |-> "malformed", items |-> <<>>]}
    \cup {[kind |-> "ok", items |-> l] : l \in items}

\* the loop of lines 137-145 over the first n items
RECURSIVE CollectDetails(_, _)
CollectDetails(items, n) ==
    IF n = 0 THEN <<>>
    ELSE DictPut(CollectDetails(items, n - 1), items[n].id,
                 [title |-> items[n].title, duration |-> items[n].duration])

\* [request, raised, video_details]
get_video_details(video_ids, response) ==
    [request |-> [id |-> video_ids],
     raised |-> response.kind # "ok",
     video_details |-> IF response.kind = "ok"
                       THEN CollectDetails(response.items, Len(response.items))
                       ELSE <<>>]

-----------------------------------------------------------------------------
(* Duration filter: filter_videos_by_duration *)

\* min_minutes <= duration_minutes <= max_minutes, max_minutes possibly inf
InBounds(value, bounds) ==
    /\ bounds.min * Unit <= value
    /\ bounds.inf \/ value <= bounds.max * Unit

\* [raised, filtered]: raised when convert_iso_duration_to_minutes raises on
\* an entry, which leaves the loop before anything is returned
filter_videos_by_duration(video_details, bounds) ==
    [raised |-> \E i \in 1..Len(video_details) :
                    convert_iso_duration_to_minutes(video_details[i].rec.duration).raised,
     filtered |-> SelectSeq(video_details,
                    LAMBDA e : LET m == convert_iso_duration_to_minutes(e.rec.duration)
                               IN  ~m.raised /\ InBounds(m.value, bounds))]

-----------------------------------------------------------------------------
(* Orchestrator: process_query *)

Query == "lofi beats"

\* the bounds chosen from the video_duration argument (lines 184-195)
DurationBounds(category) ==
    CASE category = "short" -> [min |-> 0, max |-> 4, inf |-> FALSE]
      [] category = "medium" -> [min |-> 4, max |-> 20, inf |-> FALSE]
      [] category = "long" -> [min |-> 20, max |-> 0, inf |-> TRUE]
      [] OTHER -> [min |-> 0, max |-> 0, inf |-> TRUE]

\* max(video_scores, key=video_scores.get): the first key is kept until a
\* later one compares greater
RECURSIVE MaxFrom(_, _, _)
MaxFrom(scores, i, best) ==
    IF i > Len(scores) THEN best
    ELSE MaxFrom(scores, i + 1,
                 IF FloatGT(scores[i].score, scores[best].score) THEN i ELSE best)

\* A reduction that lets a later key replace an equal one (last-seen wins).
RECURSIVE MaxFromLast(_, _, _)
MaxFromLast(scores, i, best) ==
    IF i > Len(scores) THEN best
    ELSE MaxFromLast(scores, i + 1,
                 IF FloatGE(scores[i].score, scores[best].score) THEN i ELSE best)

max_last_wins(scores) == scores[MaxFromLast(scores, 2, 1)].id

max(scores) == scores[MaxFrom(scores, 2, 1)].id

Pending == [kind |-> "none"]
Error(msg) == [kind |-> "error", error |-> msg]
Raised(exc) == [kind |-> "raised", exc |-> exc]
Video(id, rec) ==
    [kind |-> "video", id |-> id, title |-> rec.title, duration |-> rec.duration,
     url |-> <<"https://www.youtube.com/watch?v=", id>>]

\* no call made yet; found is what the search gave: "nothing yet", "raised",
\* "empty" or "items"
NoCalls == [search |-> 0, details |-> 0, scorer |-> 0, found |-> "nothing yet"]

Init ==
    /\ pc = "search"
    /\ call_args \in [query : {Query}, video_duration : Categories]
    /\ videos = <<>>
    /\ details = <<>>
    /\ filtered_videos = <<>>
    /\ video_scores = <<>>
    /\ result = Pending
    /\ calls = NoCalls
    /\ sent = <<>>

\* The search step without the `if not videos` return.
AfterSearchNoEmptyCheck(got) ==
    IF got.raised
    THEN /\ result' = Error("Error during YouTube search")
         /\ pc' = "done"
         /\ videos' = videos
    ELSE /\ result' = result
         /\ pc' = "details"
         /\ videos' = got.videos

\* lines 172-177: what process_query does with the outcome of the search
AfterSearch(got) ==
    IF got.raised
    THEN /\ result' = Error("Error during YouTube search")
         /\ pc' = "done"
         /\ videos' = videos
    ELSE IF got.videos = <<>>
    THEN /\ result' = Error("No videos found.")
         /\ pc' = "done"
         /\ videos' = got.videos
    ELSE /\ result' = result
         /\ pc' = "details"
         /\ videos' = got.videos

\* lines 169-175: the cutoff from the clock, the search, the empty result
Search ==
    /\ pc = "search"
    /\ \E now \in Clocks, days \in Days, response \in SearchResponses :
          LET published_after == Timestamp(now - days)
              got == get_videos_from_youtube(call_args.query, OrchestratorMaxResults,
                         published_after, call_args.video_duration, now, response)
          IN  /\ calls' = [calls EXCEPT !.search = @ + 1,
                                        !.found = IF got.raised THEN "raised"
                                                  ELSE IF got.videos = <<>> THEN "empty"
                                                  ELSE "items"]
              /\ AfterSearch(got)
    /\ UNCHANGED <<details, filtered_videos, video_scores, call_args, sent>>

\* lines 177-181: the detail lookup for all the ids found
FetchDetails ==
    /\ pc = "details"
    /\ \E response \in DetailResponses(DetailItems(videos)) :
          LET got == get_video_details(videos, response)
          IN  /\ calls' = [calls EXCEPT !.details = @ + 1]
              /\ IF got.raised
                 THEN /\ result' = Error("Error fetching video details")
                      /\ pc' = "done"
                      /\ details' = details
                 ELSE /\ result' = result
                      /\ pc' = "filter"
                      /\ details' = got.video_details
    /\ UNCHANGED <<videos, filtered_videos, video_scores, call_args, sent>>

\* lines 183-199: the bounds, the filter, the empty result; an exception of
\* the filter is caught by nothing in process_query
Filter ==
    /\ pc = "filter"
    /\ LET got == filter_videos_by_duration(details,
                      DurationBounds(call_args.video_duration))
       IN  IF got.raised
           THEN /\ result' = Raised("TypeError")
                /\ pc' = "done"
                /\ filtered_videos' = filtered_videos
           ELSE IF got.filtered = <<>>
           THEN /\ result' = Error("No videos found with the selected duration filter.")
                /\ pc' = "done"
                /\ filtered_videos' = got.filtered
           ELSE /\ result' = result
                /\ pc' = "score"
                /\ filtered_videos' = got.filtered
    /\ UNCHANGED <<videos, details, video_scores, calls, call_args, sent>>

\* lines 202-204: one turn of the scoring loop; an exception that left the
\* scorer would leave process_query too
ScoreNext ==
    /\ pc = "score"
    /\ Len(video_scores) < Len(filtered_videos)
    /\ \E response \in LLMResponses :
          LET vid == filtered_videos[Len(video_scores) + 1].id
              got == call_llm_to_score_title(response)
          IN  IF got.raised
              THEN /\ result' = Raised("Exception")
                   /\ pc' = "done"
                   /\ video_scores' = video_scores
              ELSE /\ result' = result
                   /\ pc' = pc
                   /\ video_scores' = Append(video_scores,
                          [id |-> vid, score |-> got.score,
                           failed |-> ScoringFailed(response)])
    /\ calls' = [calls EXCEPT !.scorer = @ + 1]
    /\ UNCHANGED <<videos, details, filtered_videos, call_args, sent>>

\* lines 206-210: the best video and its url
Select ==
    /\ pc = "score"
    /\ Len(video_scores) = Len(filtered_videos)
    /\ LET best_video_id == max(video_scores)
       IN  result' = Video(best_video_id, DictGet(filtered_videos, best_video_id))
    /\ pc' = "done"
    /\ UNCHANGED <<videos, details, filtered_videos, video_scores, calls,
                   call_args, sent>>

Next == Search \/ FetchDetails \/ Filter \/ ScoreNext \/ Select

Spec == Init /\ [][Next]_vars

-----------------------------------------------------------------------------
(* Properties of process_query, checked under Spec *)

Returned == pc = "done" /\ result.kind = "video"

\* the range the duration category stands for: short = [0,4), medium = [4,20],
\* long = [20,+inf), any = [0,+inf)
InCategoryRange(category, value) ==
    CASE category = "short" -> 0 <= value /\ value < 4 * Unit
      [] category = "medium" -> 4 * Unit <= value /\ value <= 20 * Unit
      [] category = "long" -> 20 * Unit <= value
      [] category = "any" -> 0 <= value

ParsedMinutes(duration) == convert_iso_duration_to_minutes(duration).value

\* C1: whenever process_query returns a video record, the parsed duration of
\* that record lies inside the range of the category asked for, with 4
\* minutes excluded from short.
C1_ReturnedDurationInCategoryRange ==
    Returned =>
        InCategoryRange(call_args.video_duration, ParsedMinutes(result.duration))

IndexOf(scores, id) == CHOOSE i \in 1..Len(scores) : scores[i].id = id

\* C2: the record returned is that of a surviving candidate whose score is
\* greater than or equal to every surviving candidate's score, the first
\* such candidate in iteration order, with the watch url of its id.
C2_ReturnsFirstMaximum ==
    Returned =>
        /\ result.id \in DictKeys(filtered_videos)
        /\ result = Video(result.id, DictGet(filtered_videos, result.id))
        /\ LET i == IndexOf(video_scores, result.id)
           IN  /\ \A j \in 1..Len(video_scores) \ {i} :
                      FloatGE(video_scores[i].score, video_scores[j].score)
               /\ \A j \in 1..(i - 1) :
                      video_scores[j].score # video_scores[i].score

\* C3: when the search returns zero items the run ends with the "no videos
\* found" error result and neither the detail client nor the scorer is called.
C3_EmptySearchStopsTheRun ==
    calls.found = "empty" =>
        /\ pc = "done"
        /\ result = Error("No videos found.")
        /\ calls.details = 0
        /\ calls.scorer = 0

C3_Witness ==
    /\ calls.found = "empty"
    /\ calls.search = 1
    /\ result = Error("No videos found.")

\* C4: a failed scoring call gives the score 0 and never ends the query: once
\* a candidate survives the filter, the scoring loop can always take its next
\* step, and the run ends with a video record after one scorer call for each
\* surviving candidate, whatever calls failed.
C4_ScoringFailuresAbsorbed ==
    /\ \A i \in 1..Len(video_scores) :
          video_scores[i].failed => video_scores[i].score = Float(0)
    /\ pc = "score" => filtered_videos # <<>> /\ ENABLED (ScoreNext \/ Select)
    /\ (pc = "done" /\ filtered_videos # <<>>) =>
          /\ result.kind = "video"
          /\ calls.scorer = Len(filtered_videos)
          /\ [i \in 1..Len(video_scores) |-> video_scores[i].id]
                = [i \in 1..Len(filtered_videos) |-> filtered_videos[i].id]

C4_Witness ==
    /\ Returned
    /\ Len(video_scores) >= 2
    /\ \E i, j \in 1..Len(video_scores) :
          video_scores[i].failed /\ ~video_scores[j].failed

\* C5: process_query never raises: every run ends with an error result that
\* carries a message or with a video record, and a failed search or detail
\* call ends the run with an error result, no scorer call and no second call.
C5_NeverRaises ==
    /\ result.kind # "raised"
    /\ pc = "done" => result.kind \in {"error", "video"}
    /\ calls.search <= 1 /\ calls.details <= 1
    /\ calls.found = "raised" =>
          result.kind = "error" /\ calls.details = 0 /\ calls.scorer = 0

\* C6: every value the scorer returns is a number in [0,100].
C6_ScoreInRange ==
    \A i \in 1..Len(video_scores) :
        /\ ~video_scores[i].score.nan
        /\ 0 <= video_scores[i].score.v
        /\ video_scores[i].score.v <= 100

\* C9 as stated: a candidate whose scoring failed is never the one returned
\* when a candidate really scored by the model has an equal score, whatever
\* their order.
C9_FailedNeverWinsTie ==
    Returned =>
        ~ \E i, j \in 1..Len(video_scores) :
              /\ video_scores[i].id = result.id
              /\ video_scores[i].failed
              /\ ~video_scores[j].failed
              /\ video_scores[j].score = video_scores[i].score

\* C9 as amended: a candidate whose scoring failed is returned ahead of a
\* really scored candidate of equal score only when it comes before it in
\* the iteration order of the surviving candidates.
C9_FailedWinsTieOnlyWhenFirst ==
    Returned =>
        \A i, j \in 1..Len(video_scores) :
            ( /\ video_scores[i].id = result.id
              /\ video_scores[i].failed
              /\ ~video_scores[j].failed
              /\ video_scores[j].score = video_scores[i].score ) => i < j

C9_Witness ==
    /\ Returned
    /\ \E i, j \in 1..Len(video_scores) :
          /\ i < j
          /\ video_scores[i].id = result.id
          /\ ~video_scores[i].failed
          /\ video_scores[j].failed
          /\ video_scores[j].score = video_scores[i].score

-----------------------------------------------------------------------------
(* The duration parser called on its own, checked under SpecParse *)

Alphabet == {"P", "T", "H", "M", "S", "1", "X"}

\* the tokens of the documented examples
PT5M30S == <<"P", "T", "5", "M", "3", "0", "S">>
PT45S == <<"P", "T", "4", "5", "S">>
Garbage == <<"g", "a", "r", "b", "a", "g", "e">>

Tokens ==
    UNION {[1..n -> Alphabet] : n \in 0..MaxLen}
    \cup {PT5M30S, PT45S, Garbage}

InitParse ==
    /\ pc = "call"
    /\ call_args \in [duration : {Str(t) : t \in Tokens}]
    /\ videos = <<>>
    /\ details = <<>>
    /\ filtered_videos = <<>>
    /\ video_scores = <<>>
    /\ result = Pending
    /\ calls = NoCalls
    /\ sent = <<>>

CallParse ==
    /\ pc = "call"
    /\ LET got == convert_iso_duration_to_minutes(call_args.duration)
       IN  result' = IF got.raised THEN Raised("TypeError")
                     ELSE [kind |-> "returned", value |-> got.value]
    /\ pc' = "done"
    /\ UNCHANGED <<videos, details, filtered_videos, video_scores, calls,
                   call_args, sent>>

NextParse == CallParse

SpecParse == InitParse /\ [][NextParse]_vars

\* The reference parser: s is exactly PT, then an optional hour count + H, an
\* optional minute count + M, an optional second count + S, in that order.
\* Component(s, a, b, u): s[a..b-1] is empty, or a digit string followed by u
Component(s, a, b, u) ==
    \/ a = b
    \/ /\ b - a >= 2
       /\ s[b - 1] = u
       /\ \A x \in a..(b - 2) : s[x] \in Digits

CountOf(s, a, b) == IF a = b THEN 0 ELSE int(SubSeq(s, a, b - 2))

Splits(s) ==
    {ij \in (3..(Len(s) + 1)) \X (3..(Len(s) + 1)) :
        /\ ij[1] <= ij[2]
        /\ Component(s, 3, ij[1], "H")
        /\ Component(s, ij[1], ij[2], "M")
        /\ Component(s, ij[2], Len(s) + 1, "S")}

ExactShape(s) ==
    /\ Len(s) >= 2 /\ s[1] = "P" /\ s[2] = "T"
    /\ Splits(s) # {}

ReferenceParse(s) ==
    IF ExactShape(s)
    THEN LET ij == CHOOSE x \in Splits(s) : TRUE
         IN  CountOf(s, 3, ij[1]) * 60 * Unit
             + CountOf(s, ij[1], ij[2]) * Unit
             + CountOf(s, ij[2], Len(s) + 1)
    ELSE 0

\* C7: convert_iso_duration_to_minutes never raises on a string and returns
\* what the reference parser returns: the value of a token of the exact
\* shape, and 0 for every other token.
C7_AgreesWithReferenceParser ==
    pc = "done" =>
        /\ result.kind = "returned"
        /\ result.value = ReferenceParse(call_args.duration.chars)

-----------------------------------------------------------------------------
(* The detail client called on its own, checked under SpecDetails *)

InitDetails ==
    /\ pc = "call"
    /\ call_args \in [video_ids : IdLists(MaxItems)]
    /\ videos = <<>>
    /\ details = <<>>
    /\ filtered_videos = <<>>
    /\ video_scores = <<>>
    /\ result = Pending
    /\ calls = NoCalls
    /\ sent = <<>>

\* the request goes out whatever the ids are; the answer is the platform's
CallDetails ==
    /\ pc = "call"
    /\ \E response \in DetailResponses(DetailItems(call_args.video_ids)) :
          LET got == get_video_details(call_args.video_ids, response)
          IN  /\ sent' = Append(sent, [at |-> 0, request |-> got.request])
              /\ result' = IF got.raised THEN Raised("Exception")
                           ELSE [kind |-> "returned", value |-> got.video_details]
    /\ calls' = [calls EXCEPT !.details = @ + 1]
    /\ pc' = "done"
    /\ UNCHANGED <<videos, details, filtered_videos, video_scores, call_args>>

NextDetails == CallDetails

SpecDetails == InitDetails /\ [][NextDetails]_vars

\* C8: get_video_details called with an empty list of ids never raises and
\* returns an empty mapping, whatever the platform answers.
C8_EmptyIdsNeverRaises ==
    (pc = "done" /\ call_args.video_ids = <<>>) =>
        result = [kind |-> "returned", value |-> <<>>]

-----------------------------------------------------------------------------
(* The search client called twice with the same arguments and the same       *)
(* answer of the platform, the clock read afresh at each call; checked under *)
(* SpecSearch                                                                *)

InitSearch ==
    /\ pc = "first call"
    /\ call_args \in [query : {Query},
                      max_results : {DefaultMaxResults},
                      published_after : {None, Timestamp(86), Timestamp(99)},
                      video_duration : Categories,
                      response : SearchResponses]
    /\ videos = <<>>
    /\ details = <<>>
    /\ filtered_videos = <<>>
    /\ video_scores = <<>>
    /\ result = <<>>
    /\ calls = NoCalls
    /\ sent = <<>>

\* one call at clock value now: the request and the outcome are recorded
SearchCallAt(now) ==
    LET got == get_videos_from_youtube(call_args.query, call_args.max_results,
                   call_args.published_after, call_args.video_duration, now,
                   call_args.response)
    IN  /\ sent' = Append(sent, [at |-> now, request |-> got.request])
        /\ result' = Append(result, [raised |-> got.raised, videos |-> got.videos])
        /\ calls' = [calls EXCEPT !.search = @ + 1]

CallSearchFirst ==
    /\ pc = "first call"
    /\ \E now \in Clocks : SearchCallAt(now)
    /\ pc' = "second call"
    /\ UNCHANGED <<videos, details, filtered_videos, video_scores, call_args>>

CallSearchAgain ==
    /\ pc = "second call"
    /\ \E now \in Clocks : SearchCallAt(now)
    /\ pc' = "done"
    /\ UNCHANGED <<videos, details, filtered_videos, video_scores, call_args>>

NextSearch == CallSearchFirst \/ CallSearchAgain

SpecSearch == InitSearch /\ [][NextSearch]_vars

SameRequestAndResult ==
    /\ sent[1].request = sent[2].request
    /\ result[1] = result[2]

\* C10 as stated: whatever the arguments, publishedAfter left unset included,
\* two calls with the same inputs and the same answer send the same request
\* and return the same result, whatever the clock shows at each call.
C10_SearchIgnoresTheClock ==
    pc = "done" => SameRequestAndResult

\* C10 as amended: with publishedAfter given, two calls with the same inputs
\* and the same answer send the same request and return the same result,
\* whatever the clock shows at each call; the client reads the clock only
\* when publishedAfter is left unset.
C10_SearchIgnoresTheClockWhenCutoffGiven ==
    (pc = "done" /\ ~call_args.published_after.none) => SameRequestAndResult

C10_Witness ==
    /\ pc = "done"
    /\ ~call_args.published_after.none
    /\ sent[1].at # sent[2].at
    /\ sent[1].request.publishedAfter = call_args.published_after
    /\ SameRequestAndResult

====
